---- MODULE Spec2Model ----
(***************************************************************************)
(* PyAPSI sender side: the CSV record parser and dataset loader            *)
(* (src/src/csv_reader.cpp) and the UID-assignment / label-masking         *)
(* pipeline (src/src/sender.cpp).                                          *)
(*                                                                         *)
(* A line is a sequence of one-character strings.  A Label is a sequence   *)
(* of bytes (0..255).  An Item is represented by the string it was hashed  *)
(* from (the hash itself is supplied by the APSI library).                 *)
(*                                                                         *)
(* Three specifications share the module:                                  *)
(*   ParserSpec  one line through parse_two_fields, character by           *)
(*               character, then through process_line;                     *)
(*   Spec        try_load_csv_uid_db: parameters, CSVReader::read line by  *)
(*               line, UID assignment, set_data, ComputeHashes, masking;   *)
(*   WidthSpec   the uid_bytes computation and the big-endian UID          *)
(*               encoding over row counts around the byte boundaries.      *)
(***************************************************************************)
EXTENDS Integers, Sequences, FiniteSets

VARIABLES
    \* ---- ParserSpec: parse_two_fields / process_line on one line
    p_line,      \* the line being parsed
    p_i,         \* loop index i of parse_two_fields (0-based)
    st,          \* State st
    current,     \* string current
    fields,      \* vector<string> fields
    p_pc,        \* "parse", "parsed" (parse_two_fields returned), "done", "stored"
    p_raw,       \* the pair parse_two_fields returned
    p_res,       \* what process_line returned and stored
    \* ---- Spec: try_load_csv_uid_db and try_load_csv_db
    mode,        \* "uid": try_load_csv_uid_db; "direct": try_load_csv_db
    lines,       \* the lines of the CSV source
    out_table_in,\* the caller's out_table as passed in
    pc,          \* position in try_load_csv_uid_db / CSVReader::read
    rpos,        \* lines consumed by getline so far
    result,      \* DBData result of CSVReader::read: [tag, rows]
    orig_items,  \* vector<string> orig_items
    out_table,   \* the caller's out_table (a reference parameter)
    total,       \* size_t total
    uid_bytes,   \* size_t uid_bytes
    sender_db,   \* the SenderDB: [label_byte_count, data] or "null"
    db_vec,      \* vector<pair<Item, Label>> db_vec
    i_uid,       \* loop index of the UID loop
    all_hashes,  \* what ComputeHashes returned
    i_mask,      \* loop index of the masking loop
    ret,         \* "none" while running; "nullptr", "exception" or "db"
    \* ---- WidthSpec
    w_total,     \* a row count
    w_bytes,     \* uid_bytes computed for it (0 before it is computed)
    w_i,         \* loop index of the UID loop
    w_uid        \* uid_raw of the row encoded last

parser_vars == <<p_line, p_i, st, current, fields, p_pc, p_raw, p_res>>
load_vars == <<mode, lines, out_table_in, pc, rpos, result, orig_items, out_table, total,
               uid_bytes, sender_db, db_vec, i_uid, all_hashes, i_mask, ret>>
width_vars == <<w_total, w_bytes, w_i, w_uid>>
vars == <<parser_vars, load_vars, width_vars>>

\* ------------------------------------------------------------------ bounds
\* Longest line enumerated exhaustively over Alphabet in ParserSpec.
MaxLineLen == 5
\* Most lines in a CSV source in Spec.
MaxLines == 3
\* Row counts 1..MaxTotal are enumerated in WidthSpec (plus the 2^16 boundary).
MaxTotal == 258

\* ------------------------------------------------------------------ characters
QUOTE == "\""
COMMA == ","
BSLASH == "\\"
SPACE == " "

\* The characters lines are enumerated over.
Alphabet == {QUOTE, COMMA, BSLASH, SPACE, "a"}

\* isspace() in the "C" locale (the vertical tab has no TLA+ escape and is left out)
IsSpace(ch) == ch \in {" ", "\t", "\n", "\r", "\f"}

Max(a, b) == IF a >= b THEN a ELSE b

\* ------------------------------------------------------------------ trim
RECURSIVE DropLeadingSpace(_)
DropLeadingSpace(s) ==
    IF s # <<>> /\ IsSpace(Head(s)) THEN DropLeadingSpace(Tail(s)) ELSE s

RECURSIVE DropTrailingSpace(_)
DropTrailingSpace(s) ==
    IF s # <<>> /\ IsSpace(s[Len(s)])
    THEN DropTrailingSpace(SubSeq(s, 1, Len(s) - 1))
    ELSE s

trim(s) == DropTrailingSpace(DropLeadingSpace(s))

\* ------------------------------------------------------------------ unescape_backslash
\* The loop of unescape_backslash from 1-based position i, with out built so far.
RECURSIVE UnescapeFrom(_, _, _)
UnescapeFrom(s, i, out) ==
    IF i > Len(s) THEN out
    ELSE IF s[i] = BSLASH /\ i + 1 <= Len(s) /\ s[i + 1] \in {COMMA, BSLASH}
         THEN UnescapeFrom(s, i + 2, Append(out, s[i + 1]))
         ELSE UnescapeFrom(s, i + 1, Append(out, s[i]))

unescape_backslash(s) == UnescapeFrom(s, 1, <<>>)

\* ------------------------------------------------------------------ parse_two_fields
\* The parser state is p = [st, current, fields]; each operator below is one
\* case of the switch in parse_two_fields, applied to the character ch.

\* case State::kStart (lines 73-82)
StepStart(p, ch) ==
    IF ch = QUOTE THEN [p EXCEPT !.st = "kInQuotes"]
    ELSE IF ch = COMMA
         THEN [p EXCEPT !.fields = Append(p.fields, p.current), !.current = <<>>]
         ELSE [p EXCEPT !.current = Append(p.current, ch)]

\* Mutant of StepInQuotes: a comma inside quotes ends the field.
StepInQuotesSplit(p, ch) ==
    IF ch = QUOTE THEN [p EXCEPT !.st = "kQuoteInQuotes"]
    ELSE IF ch = COMMA
         THEN [p EXCEPT !.fields = Append(p.fields, p.current), !.current = <<>>]
         ELSE [p EXCEPT !.current = Append(p.current, ch)]

\* case State::kInQuotes (lines 83-89)
StepInQuotes(p, ch) ==
    IF ch = QUOTE THEN [p EXCEPT !.st = "kQuoteInQuotes"]
    ELSE [p EXCEPT !.current = Append(p.current, ch)]

\* Mutant of StepQuoteInQuotes: a doubled quote closes and reopens the quoted
\* field without emitting the literal quote.
StepQuoteInQuotesNoLiteral(p, ch) ==
    IF ch = QUOTE
    THEN [p EXCEPT !.st = "kInQuotes"]
    ELSE IF ch = COMMA
         THEN [p EXCEPT !.fields = Append(p.fields, p.current), !.current = <<>>,
                        !.st = "kStart"]
         ELSE [p EXCEPT !.st = "kStart", !.current = Append(p.current, ch)]

\* Mutant of StepQuoteInQuotes: another character after the closing quote
\* moves to kOutQuotes.
StepQuoteInQuotesToOutQuotes(p, ch) ==
    IF ch = QUOTE
    THEN [p EXCEPT !.current = Append(p.current, QUOTE), !.st = "kInQuotes"]
    ELSE IF ch = COMMA
         THEN [p EXCEPT !.fields = Append(p.fields, p.current), !.current = <<>>,
                        !.st = "kStart"]
         ELSE [p EXCEPT !.st = "kOutQuotes", !.current = Append(p.current, ch)]

\* case State::kQuoteInQuotes (lines 90-107)
StepQuoteInQuotes(p, ch) ==
    IF ch = QUOTE
    THEN \* doubled quote
         [p EXCEPT !.current = Append(p.current, QUOTE), !.st = "kInQuotes"]
    ELSE IF ch = COMMA
         THEN [p EXCEPT !.fields = Append(p.fields, p.current), !.current = <<>>,
                        !.st = "kStart"]
         ELSE \* quote closed, treat char normally
              IF ch = COMMA
              THEN [p EXCEPT !.st = "kStart",
                             !.fields = Append(p.fields, p.current), !.current = <<>>]
              ELSE [p EXCEPT !.st = "kStart", !.current = Append(p.current, ch)]

\* The switch (lines 72-110); default: break.
ParseStep(p, ch) ==
    CASE p.st = "kStart" -> StepStart(p, ch)
      [] p.st = "kInQuotes" -> StepInQuotes(p, ch)
      [] p.st = "kQuoteInQuotes" -> StepQuoteInQuotes(p, ch)
      [] OTHER -> p

\* The arm of the switch (lines 72-110) that runs in state st on character ch.
SwitchArm(state, ch) ==
    CASE state = "kStart" ->
           IF ch = QUOTE THEN "start_quote"
           ELSE IF ch = COMMA THEN "start_comma" ELSE "start_other"
      [] state = "kInQuotes" ->
           IF ch = QUOTE THEN "inquotes_quote" ELSE "inquotes_other"
      [] state = "kQuoteInQuotes" ->
           IF ch = QUOTE THEN "quote_doubled"
           ELSE IF ch = COMMA THEN "quote_comma"
                ELSE IF ch = COMMA THEN "closed_comma" ELSE "closed_other"
      [] OTHER -> "default"

ParseInit == [st |-> "kStart", current |-> <<>>, fields |-> <<>>]

\* Mutant of ParseFlush: inside an unterminated quote the accumulator is
\* dropped.
ParseFlushClosedOnly(p) ==
    LET fs == IF p.st = "kInQuotes" THEN p.fields ELSE Append(p.fields, p.current)
    IN  <<IF Len(fs) > 0 THEN fs[1] ELSE <<>>, IF Len(fs) > 1 THEN fs[2] ELSE <<>> >>

\* Lines 112-116: flush current as the last field, return the first two.
ParseFlush(p) ==
    LET fs == Append(p.fields, p.current)
    IN  <<IF Len(fs) > 0 THEN fs[1] ELSE <<>>, IF Len(fs) > 1 THEN fs[2] ELSE <<>> >>

RECURSIVE ParseFrom(_, _, _)
ParseFrom(line, i, p) ==
    IF i > Len(line) THEN p ELSE ParseFrom(line, i + 1, ParseStep(p, line[i]))

parse_two_fields(line) == ParseFlush(ParseFrom(line, 1, ParseInit))

\* ------------------------------------------------------------------ the second copy
\* parse_two_fields of src/unnamed/part_000 (lines 72-126), whose enum is
\* Start, InQuotes, QuoteInQuotes.
StepStartCopy(p, ch) ==
    IF ch = QUOTE THEN [p EXCEPT !.st = "InQuotes"]
    ELSE IF ch = COMMA
         THEN [p EXCEPT !.fields = Append(p.fields, p.current), !.current = <<>>]
         ELSE [p EXCEPT !.current = Append(p.current, ch)]

StepInQuotesCopy(p, ch) ==
    IF ch = QUOTE THEN [p EXCEPT !.st = "QuoteInQuotes"]
    ELSE [p EXCEPT !.current = Append(p.current, ch)]

StepQuoteInQuotesCopy(p, ch) ==
    IF ch = QUOTE
    THEN [p EXCEPT !.current = Append(p.current, QUOTE), !.st = "InQuotes"]
    ELSE IF ch = COMMA
         THEN [p EXCEPT !.fields = Append(p.fields, p.current), !.current = <<>>,
                        !.st = "Start"]
         ELSE [p EXCEPT !.st = "Start", !.current = Append(p.current, ch)]

ParseStepCopy(p, ch) ==
    CASE p.st = "Start" -> StepStartCopy(p, ch)
      [] p.st = "InQuotes" -> StepInQuotesCopy(p, ch)
      [] p.st = "QuoteInQuotes" -> StepQuoteInQuotesCopy(p, ch)

ParseInitCopy == [st |-> "Start", current |-> <<>>, fields |-> <<>>]

RECURSIVE ParseFromCopy(_, _, _)
ParseFromCopy(line, i, p) ==
    IF i > Len(line) THEN p ELSE ParseFromCopy(line, i + 1, ParseStepCopy(p, line[i]))

\* part_000 lines 120-125.
ParseFlushCopy(p) ==
    LET fs == Append(p.fields, p.current)
    IN  <<IF Len(fs) > 0 THEN fs[1] ELSE <<>>, IF Len(fs) > 1 THEN fs[2] ELSE <<>> >>

parse_two_fields_copy(line) == ParseFlushCopy(ParseFromCopy(line, 1, ParseInitCopy))

\* ------------------------------------------------------------------ process_line
\* The byte a character is stored as in a Label (its ASCII code).
CharCode(ch) ==
    CASE ch = "\t" -> 9 [] ch = "\n" -> 10 [] ch = "\f" -> 12 [] ch = "\r" -> 13
      [] ch = " " -> 32 [] ch = "\"" -> 34 [] ch = "," -> 44 [] ch = "." -> 46
      [] ch = "0" -> 48 [] ch = "1" -> 49 [] ch = "2" -> 50 [] ch = "3" -> 51
      [] ch = "4" -> 52 [] ch = "5" -> 53 [] ch = "6" -> 54 [] ch = "7" -> 55
      [] ch = "8" -> 56 [] ch = "9" -> 57 [] ch = "\\" -> 92
      [] ch = "a" -> 97 [] ch = "b" -> 98 [] ch = "c" -> 99 [] ch = "e" -> 101
      [] ch = "i" -> 105 [] ch = "l" -> 108 [] ch = "n" -> 110 [] ch = "o" -> 111
      [] ch = "r" -> 114 [] ch = "x" -> 120

\* copy(raw_label.begin(), raw_label.end(), back_inserter(label))
LabelBytes(s) == [k \in 1..Len(s) |-> CharCode(s[k])]

\* What process_line leaves in its out-parameters when they were passed in
\* freshly constructed, as CSVReader::read passes them.
NoRecord == [has_item |-> FALSE, has_label |-> FALSE,
             orig_item |-> <<>>, item |-> <<>>, label |-> <<>>]

\* Mutant of ProcessFields: a line without an item is rejected only when it has
\* no label either.
ProcessFieldsKeepLabelled(raw) ==
    LET raw_item == unescape_backslash(trim(raw[1]))
        raw_label == trim(raw[2])
    IN  IF raw_item = <<>> /\ raw_label = <<>> THEN NoRecord
        ELSE [has_item |-> TRUE, has_label |-> raw_label # <<>>,
              orig_item |-> raw_item, item |-> raw_item,
              label |-> LabelBytes(raw_label)]

\* Mutant of ProcessFields: the label field is unescaped like the item field.
ProcessFieldsUnescapeLabel(raw) ==
    LET raw_item == unescape_backslash(trim(raw[1]))
        raw_label == unescape_backslash(trim(raw[2]))
    IN  IF raw_item = <<>> THEN NoRecord
        ELSE [has_item |-> TRUE, has_label |-> raw_label # <<>>,
              orig_item |-> raw_item, item |-> raw_item,
              label |-> LabelBytes(raw_label)]

\* process_line after parse_two_fields returned raw = <<raw_item, raw_label>>.
ProcessFields(raw) ==
    LET raw_item == unescape_backslash(trim(raw[1]))
        raw_label == trim(raw[2])
    IN  IF raw_item = <<>> THEN NoRecord
        ELSE [has_item |-> TRUE, has_label |-> raw_label # <<>>,
              orig_item |-> raw_item, item |-> raw_item,
              label |-> LabelBytes(raw_label)]

process_line(line) == ProcessFields(parse_two_fields(line))


\* ------------------------------------------------------------------ ParserSpec
\* The examples of the specification, as lines.
ExampleLines ==
    { <<"a", "\\", ",", "b", ",", "l", "a", "b", "e", "l">>,
      <<"a", "\\", "\\", "b", ",", "l", "a", "b", "e", "l">>,
      <<"\"", "c", "a", "r", "o", "l", ",", " ", "i", "n", "c", ".", "\"", ",",
        "3", "0", "0">>,
      <<"\"", "a", "\"", "\"", "b", "\"", ",", "x">> }

AllLines(n) == UNION {[1..k -> Alphabet] : k \in 0..n}

ParserLines == AllLines(MaxLineLen) \cup ExampleLines

ParserIdle ==
    /\ p_line = <<>> /\ p_i = 0 /\ st = "kStart" /\ current = <<>> /\ fields = <<>>
    /\ p_pc = "idle" /\ p_raw = <<>> /\ p_res = NoRecord

ParserInit ==
    /\ p_line \in ParserLines
    /\ p_i = 0
    /\ st = "kStart"
    /\ current = <<>>
    /\ fields = <<>>
    /\ p_pc = "parse"
    /\ p_raw = <<>>
    /\ p_res = NoRecord

\* One iteration of the for loop of parse_two_fields (lines 70-111).
ParseChar ==
    /\ p_pc = "parse"
    /\ p_i < Len(p_line)
    /\ LET q == ParseStep([st |-> st, current |-> current, fields |-> fields],
                          p_line[p_i + 1])
       IN  /\ st' = q.st
           /\ current' = q.current
           /\ fields' = q.fields
    /\ p_i' = p_i + 1
    /\ UNCHANGED <<p_line, p_pc, p_raw, p_res>>
    /\ UNCHANGED <<load_vars, width_vars>>

\* Lines 112-116: the loop is over; current (not read again) is flushed.
ParseReturn ==
    /\ p_pc = "parse"
    /\ p_i = Len(p_line)
    /\ fields' = Append(fields, current)
    /\ p_raw' = ParseFlush([st |-> st, current |-> current, fields |-> fields])
    /\ p_pc' = "parsed"
    /\ UNCHANGED <<p_line, p_i, st, current, p_res>>
    /\ UNCHANGED <<load_vars, width_vars>>

\* process_line, lines 199-218, on what parse_two_fields returned.
ProcessLine ==
    /\ p_pc = "parsed"
    /\ p_res' = ProcessFields(p_raw)
    /\ p_pc' = "done"
    /\ UNCHANGED <<p_line, p_i, st, current, fields, p_raw>>
    /\ UNCHANGED <<load_vars, width_vars>>


\* ------------------------------------------------------------------ UID arithmetic
RECURSIVE Pow256(_)
Pow256(n) == IF n = 0 THEN 1 ELSE 256 * Pow256(n - 1)

\* ceil(log2(x) / 8.0) for an integer x >= 1: the least w with x <= 2^(8w).
\* (For the row counts modelled, below 2^31, double(total) + 1 is exact and
\* log2 of it is further from a multiple of 8 than its rounding error unless
\* it is a power of 256, for which log2 is exact.)
RECURSIVE CeilLog2Over8From(_, _)
CeilLog2Over8From(x, w) == IF x <= Pow256(w) THEN w ELSE CeilLog2Over8From(x, w + 1)

\* Mutant of UidBytes: the width of total instead of total + 1.
UidBytesOfTotal(n) == Max(1, CeilLog2Over8From(n, 0))

\* Lines 135-136.
UidBytes(n) == Max(1, CeilLog2Over8From(n + 1, 0))

\* Mutant of EncodeUid: the 0-based loop index instead of idx = i + 1.
EncodeUidZeroBased(idx, n) == [k \in 1..n |-> ((idx - 1) \div Pow256(n - k)) % 256]

\* Lines 155-160: uid_raw[uid_bytes - 1 - b] = (idx >> (8 * b)) & 0xFF.
EncodeUid(idx, n) == [k \in 1..n |-> (idx \div Pow256(n - k)) % 256]

\* ------------------------------------------------------------------ keystream and mask
\* A uint64_t word is [hi, lo], its upper and lower 32 bits.
\* (w >> (8 * b)) & 0xFF for b in 0..7
WordByte(w, b) ==
    IF b < 4 THEN (w.lo \div Pow256(b)) % 256 ELSE (w.hi \div Pow256(b - 4)) % 256

\* Lines 177-184: the words of a hash, each serialised low byte first.
RECURSIVE PrfBytes(_)
PrfBytes(words) ==
    IF words = <<>> THEN <<>>
    ELSE [b \in 1..8 |-> WordByte(Head(words), b - 1)] \o PrfBytes(Tail(words))

\* a ^ b on uint8_t
RECURSIVE XorBits(_, _, _)
XorBits(a, b, n) ==
    IF n = 0 THEN 0
    ELSE (((a % 2) + (b % 2)) % 2) + 2 * XorBits(a \div 2, b \div 2, n - 1)

\* Mutant of MaskByte: the keystream byte is added instead of XOR-ed.
MaskByteAdd(l, k) == (l + k) % 256

\* Line 190: orig_lbl[j] ^ prf[j % prf.size()], on one byte.
MaskByte(l, k) == XorBits(l, k, 8)

\* Mutant of MaskLabel: the keystream is used once; the bytes of the label
\* beyond its length are copied.
MaskLabelNoWrap(orig_lbl, prf) ==
    [j \in 1..Len(orig_lbl) |->
        IF j <= Len(prf) THEN MaskByte(orig_lbl[j], prf[j]) ELSE orig_lbl[j]]

\* Lines 188-191: the masking loop over one label.
MaskLabel(orig_lbl, prf) ==
    [j \in 1..Len(orig_lbl) |-> MaskByte(orig_lbl[j], prf[((j - 1) % Len(prf)) + 1])]


\* ------------------------------------------------------------------ Spec: inputs
\* The lines a CSV source is made of in Spec.
LoaderLines ==
    { <<"a", ",", "1">>,                       \* item a, label 1
      <<"b">>,                                 \* item b, no label
      <<",", "x">>,                            \* no item
      <<"\"", "b", ",", "\"", ",", "2", "3">>, \* item b, (quoted comma), label 23
      <<" ", "a", "\\", "\\", ",", "1">>,       \* item a\ after trim and unescape
      <<"c", ",", "1", "2", "3", "4", "5", "6", "7", "8", "9",
        "0", "1", "2", "3", "4", "5", "6", "7">> }  \* a 17-byte label

Sources == UNION {[1..k -> LoaderLines] : k \in 0..MaxLines}

\* A table a caller may pass in from an earlier call.
StaleTable == << [uid |-> <<9>>, masked |-> <<7>>] >>

\* The outputs ComputeHashes may give for an item: two 64-bit words each.
HashValues ==
    { << [hi |-> 16909060, lo |-> 84281096], [hi |-> 151653132, lo |-> 219025168] >>,
      << [hi |-> 2130771840, lo |-> 255], [hi |-> 0, lo |-> 49] >> }

NoDb == [built |-> FALSE, label_byte_count |-> 0, data |-> <<>>]

LoadIdle ==
    /\ mode = "uid"
    /\ lines = <<>> /\ out_table_in = <<>> /\ pc = "idle" /\ rpos = 0
    /\ result = [tag |-> "Unlabeled", rows |-> <<>>] /\ orig_items = <<>>
    /\ out_table = <<>> /\ total = 0 /\ uid_bytes = 0 /\ sender_db = NoDb
    /\ db_vec = <<>> /\ i_uid = 0 /\ all_hashes = <<>> /\ i_mask = 0 /\ ret = "none"

LoadInit ==
    /\ mode \in {"uid", "direct"}
    /\ lines \in Sources
    /\ out_table_in \in (IF mode = "uid" THEN {<<>>, StaleTable} ELSE {<<>>})
    /\ out_table = out_table_in
    /\ pc = "load_params"
    /\ rpos = 0
    /\ result = [tag |-> "Unlabeled", rows |-> <<>>]   \* a default DBData
    /\ orig_items = <<>>
    /\ total = 0
    /\ uid_bytes = 0
    /\ sender_db = NoDb
    /\ db_vec = <<>>
    /\ i_uid = 0
    /\ all_hashes = <<>>
    /\ i_mask = 0
    /\ ret = "none"

\* ------------------------------------------------------------------ try_load_csv_uid_db
\* Lines 115-121: PSIParams::Load succeeds.
LoadParams ==
    /\ pc = "load_params"
    /\ pc' = "open_csv"
    /\ UNCHANGED <<mode, lines, out_table_in, rpos, result, orig_items, out_table, total,
                   uid_bytes, sender_db, db_vec, i_uid, all_hashes, i_mask, ret>>
    /\ UNCHANGED <<parser_vars, width_vars>>

\* Lines 118-121: PSIParams::Load throws; return nullptr.
LoadParamsFails ==
    /\ pc = "load_params"
    /\ pc' = "done"
    /\ ret' = "nullptr"
    /\ UNCHANGED <<mode, lines, out_table_in, rpos, result, orig_items, out_table, total,
                   uid_bytes, sender_db, db_vec, i_uid, all_hashes, i_mask>>
    /\ UNCHANGED <<parser_vars, width_vars>>

\* db_data_from_csv, lines 11-14, and CSVReader::read(), lines 177-185: the file
\* is valid and opens.
OpenCsv ==
    /\ pc = "open_csv"
    /\ pc' = "read_first"
    /\ UNCHANGED <<mode, lines, out_table_in, rpos, result, orig_items, out_table, total,
                   uid_bytes, sender_db, db_vec, i_uid, all_hashes, i_mask, ret>>
    /\ UNCHANGED <<parser_vars, width_vars>>

\* db_data_from_csv, lines 15-18: the file is missing or unreadable; nullptr,
\* and try_load_csv_uid_db returns nullptr at lines 124-127.
OpenCsvFails ==
    /\ pc = "open_csv"
    /\ pc' = "done"
    /\ ret' = "nullptr"
    /\ UNCHANGED <<mode, lines, out_table_in, rpos, result, orig_items, out_table, total,
                   uid_bytes, sender_db, db_vec, i_uid, all_hashes, i_mask>>
    /\ UNCHANGED <<parser_vars, width_vars>>

\* ------------------------------------------------------------------ CSVReader::read
\* Mutant of AppendRow: a line without a label is left out of a Labeled dataset.
AppendRowDropUnlabeled(res, rec) ==
    IF res.tag = "Unlabeled"
    THEN [res EXCEPT !.rows = Append(res.rows, rec.item)]
    ELSE IF rec.has_label
         THEN [res EXCEPT !.rows = Append(res.rows, [item |-> rec.item, label |-> rec.label])]
         ELSE res

\* Mutant of AppendRow: a line with a label is left out of an Unlabeled dataset.
AppendRowSkipLabelled(res, rec) ==
    IF res.tag = "Unlabeled"
    THEN IF rec.has_label THEN res
         ELSE [res EXCEPT !.rows = Append(res.rows, rec.item)]
    ELSE [res EXCEPT !.rows = Append(res.rows, [item |-> rec.item, label |-> rec.label])]

\* Lines 165-169: the row of an accepted line is pushed onto the alternative
\* result holds.
AppendRow(res, rec) ==
    IF res.tag = "Unlabeled"
    THEN [res EXCEPT !.rows = Append(res.rows, rec.item)]
    ELSE [res EXCEPT !.rows = Append(res.rows, [item |-> rec.item, label |-> rec.label])]

\* Mutant of ReadFirst: a first line without an item gives an empty Labeled
\* dataset.
ReadFirstRejectedLabeled ==
    /\ pc = "read_first"
    /\ IF Len(lines) = 0
       THEN /\ result' = [tag |-> "Unlabeled", rows |-> <<>>]
            /\ orig_items' = <<>>
            /\ pc' = "read_done"
            /\ UNCHANGED rpos
       ELSE LET rec == process_line(lines[1])
            IN  /\ rpos' = 1
                /\ IF ~rec.has_item
                   THEN /\ result' = [tag |-> "Labeled", rows |-> <<>>]
                        /\ orig_items' = <<>>
                        /\ pc' = "read_done"
                   ELSE /\ orig_items' = <<rec.orig_item>>
                        /\ result' =
                             IF rec.has_label
                             THEN [tag |-> "Labeled",
                                   rows |-> <<[item |-> rec.item, label |-> rec.label]>>]
                             ELSE [tag |-> "Unlabeled", rows |-> <<rec.item>>]
                        /\ pc' = "read_loop"
    /\ UNCHANGED <<mode, lines, out_table_in, out_table, total, uid_bytes, sender_db, db_vec,
                   i_uid, all_hashes, i_mask, ret>>
    /\ UNCHANGED <<parser_vars, width_vars>>

\* Mutant of ReadFirst: a source without any line is reported as a failure.
ReadFirstEmptyThrows ==
    /\ pc = "read_first"
    /\ IF Len(lines) = 0
       THEN /\ ret' = "nullptr"
            /\ pc' = "done"
            /\ UNCHANGED <<rpos, result, orig_items>>
       ELSE LET rec == process_line(lines[1])
            IN  /\ rpos' = 1
                /\ ret' = ret
                /\ IF ~rec.has_item
                   THEN /\ result' = [tag |-> "Unlabeled", rows |-> <<>>]
                        /\ orig_items' = <<>>
                        /\ pc' = "read_done"
                   ELSE /\ orig_items' = <<rec.orig_item>>
                        /\ result' =
                             IF rec.has_label
                             THEN [tag |-> "Labeled",
                                   rows |-> <<[item |-> rec.item, label |-> rec.label]>>]
                             ELSE [tag |-> "Unlabeled", rows |-> <<rec.item>>]
                        /\ pc' = "read_loop"
    /\ UNCHANGED <<mode, lines, out_table_in, out_table, total, uid_bytes, sender_db, db_vec,
                   i_uid, all_hashes, i_mask>>
    /\ UNCHANGED <<parser_vars, width_vars>>

\* Lines 127-147: the first getline and the first record.
ReadFirst ==
    /\ pc = "read_first"
    /\ IF Len(lines) = 0
       THEN \* nothing to read
            /\ result' = [tag |-> "Unlabeled", rows |-> <<>>]
            /\ orig_items' = <<>>
            /\ pc' = "read_done"
            /\ UNCHANGED rpos
       ELSE LET rec == process_line(lines[1])
            IN  /\ rpos' = 1
                /\ IF ~rec.has_item
                   THEN \* return { UnlabeledData{}, {} }
                        /\ result' = [tag |-> "Unlabeled", rows |-> <<>>]
                        /\ orig_items' = <<>>
                        /\ pc' = "read_done"
                   ELSE /\ orig_items' = <<rec.orig_item>>
                        /\ result' =
                             IF rec.has_label
                             THEN [tag |-> "Labeled",
                                   rows |-> <<[item |-> rec.item, label |-> rec.label]>>]
                             ELSE [tag |-> "Unlabeled", rows |-> <<rec.item>>]
                        /\ pc' = "read_loop"
    /\ UNCHANGED <<mode, lines, out_table_in, out_table, total, uid_bytes, sender_db, db_vec,
                   i_uid, all_hashes, i_mask, ret>>
    /\ UNCHANGED <<parser_vars, width_vars>>

\* Mutant of ReadNext: orig_item is pushed before has_item is tested.
ReadNextPushesFirst ==
    /\ pc = "read_loop"
    /\ rpos < Len(lines)
    /\ rpos' = rpos + 1
    /\ LET rec == process_line(lines[rpos + 1])
       IN  /\ orig_items' = Append(orig_items, rec.orig_item)
           /\ IF ~rec.has_item
              THEN UNCHANGED result
              ELSE result' = AppendRow(result, rec)
    /\ UNCHANGED <<mode, lines, out_table_in, pc, out_table, total, uid_bytes, sender_db,
                   db_vec, i_uid, all_hashes, i_mask, ret>>
    /\ UNCHANGED <<parser_vars, width_vars>>

\* Lines 149-170: one iteration of the while loop.
ReadNext ==
    /\ pc = "read_loop"
    /\ rpos < Len(lines)
    /\ rpos' = rpos + 1
    /\ LET rec == process_line(lines[rpos + 1])
       IN  IF ~rec.has_item
           THEN UNCHANGED <<result, orig_items>>     \* continue
           ELSE /\ orig_items' = Append(orig_items, rec.orig_item)
                /\ result' = AppendRow(result, rec)
    /\ UNCHANGED <<mode, lines, out_table_in, pc, out_table, total, uid_bytes, sender_db,
                   db_vec, i_uid, all_hashes, i_mask, ret>>
    /\ UNCHANGED <<parser_vars, width_vars>>

\* Lines 149 and 172: getline fails at the end of the source; read returns.
ReadReturn ==
    /\ pc = "read_loop"
    /\ rpos = Len(lines)
    /\ pc' = "read_done"
    /\ UNCHANGED <<mode, lines, out_table_in, rpos, result, orig_items, out_table, total,
                   uid_bytes, sender_db, db_vec, i_uid, all_hashes, i_mask, ret>>
    /\ UNCHANGED <<parser_vars, width_vars>>

\* ------------------------------------------------------------------ the UID pipeline
\* Mutant of CheckDataset: only the row count is tested, not the alternative
\* the dataset holds.
CheckDatasetAnyTag ==
    /\ mode = "uid"
    /\ pc = "read_done"
    /\ IF Len(result.rows) = 0
       THEN /\ ret' = "nullptr"
            /\ pc' = "done"
            /\ UNCHANGED <<total, uid_bytes>>
       ELSE /\ total' = Len(result.rows)
            /\ uid_bytes' = UidBytes(Len(result.rows))
            /\ pc' = "construct"
            /\ UNCHANGED ret
    /\ UNCHANGED <<mode, lines, out_table_in, rpos, result, orig_items, out_table, sender_db,
                   db_vec, i_uid, all_hashes, i_mask>>
    /\ UNCHANGED <<parser_vars, width_vars>>

\* Mutant of CheckDataset: out_table is cleared before the dataset is tested.
CheckDatasetClearsFirst ==
    /\ mode = "uid"
    /\ pc = "read_done"
    /\ out_table' = <<>>
    /\ IF result.tag # "Labeled" \/ Len(result.rows) = 0
       THEN /\ ret' = "nullptr"
            /\ pc' = "done"
            /\ UNCHANGED <<total, uid_bytes>>
       ELSE /\ total' = Len(result.rows)
            /\ uid_bytes' = UidBytes(Len(result.rows))
            /\ pc' = "construct"
            /\ UNCHANGED ret
    /\ UNCHANGED <<mode, lines, out_table_in, rpos, result, orig_items, sender_db,
                   db_vec, i_uid, all_hashes, i_mask>>
    /\ UNCHANGED <<parser_vars, width_vars>>

\* Lines 124-138: the dataset must be Labeled and non-empty; uid_bytes.
CheckDataset ==
    /\ mode = "uid"
    /\ pc = "read_done"
    /\ IF result.tag # "Labeled" \/ Len(result.rows) = 0
       THEN /\ ret' = "nullptr"
            /\ pc' = "done"
            /\ UNCHANGED <<total, uid_bytes>>
       ELSE /\ total' = Len(result.rows)
            /\ uid_bytes' = UidBytes(Len(result.rows))
            /\ pc' = "construct"
            /\ UNCHANGED ret
    /\ UNCHANGED <<mode, lines, out_table_in, rpos, result, orig_items, out_table, sender_db,
                   db_vec, i_uid, all_hashes, i_mask>>
    /\ UNCHANGED <<parser_vars, width_vars>>

\* Lines 140-149: the SenderDB is constructed; db_vec and out_table are emptied.
ConstructDb ==
    /\ pc = "construct"
    /\ sender_db' = [built |-> TRUE, label_byte_count |-> uid_bytes, data |-> <<>>]
    /\ db_vec' = <<>>
    /\ out_table' = <<>>
    /\ i_uid' = 0
    /\ pc' = "uid_loop"
    /\ UNCHANGED <<mode, lines, out_table_in, rpos, result, orig_items, total, uid_bytes,
                   all_hashes, i_mask, ret>>
    /\ UNCHANGED <<parser_vars, width_vars>>

\* Line 140: the SenderDB constructor throws; nothing catches it.
ConstructDbThrows ==
    /\ pc = "construct"
    /\ ret' = "exception"
    /\ pc' = "done"
    /\ UNCHANGED <<mode, lines, out_table_in, rpos, result, orig_items, out_table, total,
                   uid_bytes, sender_db, db_vec, i_uid, all_hashes, i_mask>>
    /\ UNCHANGED <<parser_vars, width_vars>>

\* Mutant of UidRow: the UID is the index shifted by the length of the label
\* of the row.
UidRowFromLabel ==
    /\ pc = "uid_loop"
    /\ i_uid < total
    /\ LET uid_raw == EncodeUid(i_uid + 1 + Len(result.rows[i_uid + 1].label), uid_bytes)
       IN  /\ db_vec' = Append(db_vec, [item |-> result.rows[i_uid + 1].item,
                                        label |-> uid_raw])
           /\ out_table' = Append(out_table, [uid |-> uid_raw, masked |-> <<>>])
    /\ i_uid' = i_uid + 1
    /\ UNCHANGED <<mode, lines, out_table_in, pc, rpos, result, orig_items, total, uid_bytes,
                   sender_db, all_hashes, i_mask, ret>>
    /\ UNCHANGED <<parser_vars, width_vars>>

\* Lines 151-165: one iteration of the UID loop.
UidRow ==
    /\ pc = "uid_loop"
    /\ i_uid < total
    /\ LET uid_raw == EncodeUid(i_uid + 1, uid_bytes)
       IN  /\ db_vec' = Append(db_vec, [item |-> result.rows[i_uid + 1].item,
                                        label |-> uid_raw])
           /\ out_table' = Append(out_table, [uid |-> uid_raw, masked |-> <<>>])
    /\ i_uid' = i_uid + 1
    /\ UNCHANGED <<mode, lines, out_table_in, pc, rpos, result, orig_items, total, uid_bytes,
                   sender_db, all_hashes, i_mask, ret>>
    /\ UNCHANGED <<parser_vars, width_vars>>

\* Lines 167-169: set_data succeeds.
SetData ==
    /\ pc = "uid_loop"
    /\ i_uid = total
    /\ sender_db' = [sender_db EXCEPT !.data = db_vec]
    /\ pc' = "hashes"
    /\ UNCHANGED <<mode, lines, out_table_in, rpos, result, orig_items, out_table, total,
                   uid_bytes, db_vec, i_uid, all_hashes, i_mask, ret>>
    /\ UNCHANGED <<parser_vars, width_vars>>

\* Line 167: set_data throws; nothing catches it.
SetDataThrows ==
    /\ pc = "uid_loop"
    /\ i_uid = total
    /\ ret' = "exception"
    /\ pc' = "done"
    /\ UNCHANGED <<mode, lines, out_table_in, rpos, result, orig_items, out_table, total,
                   uid_bytes, sender_db, db_vec, i_uid, all_hashes, i_mask>>
    /\ UNCHANGED <<parser_vars, width_vars>>

\* Lines 171-174: ComputeHashes gives one output per item, in row order, the
\* same output for the same item.
ComputeHashes ==
    /\ pc = "hashes"
    /\ \E h \in [{db_vec[k].item : k \in 1..Len(db_vec)} -> HashValues] :
          all_hashes' = [k \in 1..Len(db_vec) |-> h[db_vec[k].item]]
    /\ i_mask' = 0
    /\ pc' = "mask_loop"
    /\ UNCHANGED <<mode, lines, out_table_in, rpos, result, orig_items, out_table, total,
                   uid_bytes, sender_db, db_vec, i_uid, ret>>
    /\ UNCHANGED <<parser_vars, width_vars>>

\* Line 174: ComputeHashes throws; nothing catches it.
ComputeHashesThrows ==
    /\ pc = "hashes"
    /\ ret' = "exception"
    /\ pc' = "done"
    /\ UNCHANGED <<mode, lines, out_table_in, rpos, result, orig_items, out_table, total,
                   uid_bytes, sender_db, db_vec, i_uid, all_hashes, i_mask>>
    /\ UNCHANGED <<parser_vars, width_vars>>

\* Lines 176-192: one iteration of the masking loop.
MaskRow ==
    /\ pc = "mask_loop"
    /\ i_mask < total
    /\ out_table' = [out_table EXCEPT ![i_mask + 1].masked =
                        MaskLabel(result.rows[i_mask + 1].label,
                                  PrfBytes(all_hashes[i_mask + 1]))]
    /\ i_mask' = i_mask + 1
    /\ UNCHANGED <<mode, lines, out_table_in, pc, rpos, result, orig_items, total, uid_bytes,
                   sender_db, db_vec, i_uid, all_hashes, ret>>
    /\ UNCHANGED <<parser_vars, width_vars>>

\* Lines 194-195.
ReturnDb ==
    /\ pc = "mask_loop"
    /\ i_mask = total
    /\ ret' = "db"
    /\ pc' = "done"
    /\ UNCHANGED <<mode, lines, out_table_in, rpos, result, orig_items, out_table, total,
                   uid_bytes, sender_db, db_vec, i_uid, all_hashes, i_mask>>
    /\ UNCHANGED <<parser_vars, width_vars>>

\* ------------------------------------------------------------------ create_sender_db
\* try_load_csv_db (lines 23-50) loads the parameters and the CSV data as
\* try_load_csv_uid_db does (LoadParams .. ReadReturn) and then calls
\* create_sender_db on the dataset.

\* Mutant of MaxLabelLen: the label length of the first row.
FirstLabelLen(rows) == Len(rows[1].label)

\* Lines 79-82: max_element over the label sizes of a non-empty Labeled dataset.
RECURSIVE MaxLabelLen(_)
MaxLabelLen(rows) ==
    IF Len(rows) = 1 THEN Len(rows[1].label)
    ELSE Max(Len(rows[1].label), MaxLabelLen(Tail(rows)))

\* Lines 63-106: the SenderDB is constructed and filled.  (max_element of an
\* empty Labeled dataset would dereference end(): any width may come out.)
CreateSenderDb ==
    /\ mode = "direct"
    /\ pc = "read_done"
    /\ IF result.tag = "Unlabeled"
       THEN sender_db' = [built |-> TRUE, label_byte_count |-> 0, data |-> result.rows]
       ELSE \E n \in (IF result.rows = <<>> THEN 0..1 ELSE {MaxLabelLen(result.rows)}) :
               sender_db' = [built |-> TRUE, label_byte_count |-> n,
                             data |-> result.rows]
    /\ ret' = "db"
    /\ pc' = "done"
    /\ UNCHANGED <<mode, lines, out_table_in, rpos, result, orig_items, out_table, total,
                   uid_bytes, db_vec, i_uid, all_hashes, i_mask>>
    /\ UNCHANGED <<parser_vars, width_vars>>

\* Lines 71-74 and 90-93: the constructor or set_data throws; return nullptr.
CreateSenderDbThrows ==
    /\ mode = "direct"
    /\ pc = "read_done"
    /\ ret' = "nullptr"
    /\ pc' = "done"
    /\ UNCHANGED <<mode, lines, out_table_in, rpos, result, orig_items, out_table, total,
                   uid_bytes, sender_db, db_vec, i_uid, all_hashes, i_mask>>
    /\ UNCHANGED <<parser_vars, width_vars>>

\* ------------------------------------------------------------------ WidthSpec
\* Row counts: every one up to MaxTotal, and those around 2^16.
WidthTotals == (1..MaxTotal) \cup {65535, 65536}

WidthIdle == w_total = 0 /\ w_bytes = 0 /\ w_i = 0 /\ w_uid = <<>>

WidthInit ==
    /\ w_total \in WidthTotals
    /\ w_bytes = 0
    /\ w_i = 0
    /\ w_uid = <<>>

\* Lines 135-136 for a dataset of w_total rows.
ComputeWidth ==
    /\ w_bytes = 0
    /\ w_bytes' = UidBytes(w_total)
    /\ UNCHANGED <<w_total, w_i, w_uid>>
    /\ UNCHANGED <<parser_vars, load_vars>>

\* Lines 155-160: uid_raw of row w_i.
EncodeRow ==
    /\ w_bytes > 0
    /\ w_i < w_total
    /\ w_uid' = EncodeUid(w_i + 1, w_bytes)
    /\ w_i' = w_i + 1
    /\ UNCHANGED <<w_total, w_bytes>>
    /\ UNCHANGED <<parser_vars, load_vars>>

WidthNext == ComputeWidth \/ EncodeRow

\* ------------------------------------------------------------------ specifications
Init == ParserIdle /\ LoadInit /\ WidthIdle

Next ==
    \/ LoadParams
    \/ LoadParamsFails
    \/ OpenCsv
    \/ OpenCsvFails
    \/ ReadFirst
    \/ ReadNext
    \/ ReadReturn
    \/ CheckDataset
    \/ ConstructDb
    \/ ConstructDbThrows
    \/ UidRow
    \/ SetData
    \/ SetDataThrows
    \/ ComputeHashes
    \/ ComputeHashesThrows
    \/ MaskRow
    \/ ReturnDb
    \/ CreateSenderDb
    \/ CreateSenderDbThrows

Spec == Init /\ [][Next]_vars

\* ParserSpec follows one iteration of the while loop of CSVReader::read
\* (lines 149-170) on a dataset that holds the row of the first line.
LoopDatasets ==
    { [tag |-> "Unlabeled", rows |-> << <<"b">> >>],
      [tag |-> "Labeled", rows |-> << [item |-> <<"b">>, label |-> <<50>>] >>] }

LoadInLoop ==
    /\ mode = "uid" /\ lines = <<>> /\ out_table_in = <<>> /\ pc = "idle" /\ rpos = 0
    /\ result \in LoopDatasets /\ orig_items = << <<"b">> >>
    /\ out_table = <<>> /\ total = 0 /\ uid_bytes = 0 /\ sender_db = NoDb
    /\ db_vec = <<>> /\ i_uid = 0 /\ all_hashes = <<>> /\ i_mask = 0 /\ ret = "none"

\* Lines 159-169: the record process_line returned is skipped or stored.
AccumulateRecord ==
    /\ p_pc = "done"
    /\ p_pc' = "stored"
    /\ IF ~p_res.has_item
       THEN UNCHANGED <<result, orig_items>>     \* continue
       ELSE /\ orig_items' = Append(orig_items, p_res.orig_item)
            /\ result' = AppendRow(result, p_res)
    /\ UNCHANGED <<p_line, p_i, st, current, fields, p_raw, p_res>>
    /\ UNCHANGED <<mode, lines, out_table_in, pc, rpos, out_table, total, uid_bytes,
                   sender_db, db_vec, i_uid, all_hashes, i_mask, ret>>
    /\ UNCHANGED width_vars

ParserNext ==
    \/ ParseChar
    \/ ParseReturn
    \/ ProcessLine
    \/ AccumulateRecord

ParserSpecInit == ParserInit /\ LoadInLoop /\ WidthIdle

ParserSpec == ParserSpecInit /\ [][ParserNext]_vars

WidthSpecInit == ParserIdle /\ LoadIdle /\ WidthInit

WidthSpec == WidthSpecInit /\ [][WidthNext]_vars


\* ================================================================== claims
\* ------------------------------------------------------------------ parser claims
LineEscapedComma == <<"a", "\\", ",", "b", ",", "l", "a", "b", "e", "l">>
LineCarol ==
    <<"\"", "c", "a", "r", "o", "l", ",", " ", "i", "n", "c", ".", "\"", ",", "3", "0", "0">>
LineDoubledQuote == <<"\"", "a", "\"", "\"", "b", "\"", ",", "x">>

\* The character the parser reads next.
NextChar == p_line[p_i + 1]

Reading == p_pc = "parse" /\ p_i < Len(p_line)

\* The first comma of an unquoted line is escaped by a backslash that is not
\* itself escaped.
EscapedFirstComma(line) ==
    /\ \A k \in 1..Len(line) : line[k] # QUOTE
    /\ \E k \in 2..Len(line) :
          /\ line[k] = COMMA
          /\ line[k - 1] = BSLASH
          /\ (k > 2 => line[k - 2] # BSLASH)
          /\ \A j \in 1..(k - 1) : line[j] # COMMA

\* C2: a backslash-comma outside quotes in the item field is the literal comma
\* and does not split the field: the item holds a comma, and a\,b,label gives
\* item a,b and label label.
C2_EscapedCommaIsLiteral ==
    (p_pc = "done" /\ EscapedFirstComma(p_line)) =>
        /\ p_res.has_item
        /\ \E j \in 1..Len(p_res.item) : p_res.item[j] = COMMA
        /\ (p_line = LineEscapedComma =>
               /\ p_res.item = <<"a", ",", "b">>
               /\ p_res.label = LabelBytes(<<"l", "a", "b", "e", "l">>))

\* What the code does with a\,b,label: the field is split at the comma.
C2_ExampleParsed ==
    (p_pc = "done" /\ p_line = LineEscapedComma) =>
        /\ p_res.item = <<"a", "\\">>
        /\ p_res.label = LabelBytes(<<"b">>)

\* Logical fields and their encodings in a well-formed line.
RECURSIVE DoubleQuotes(_)
DoubleQuotes(f) ==
    IF f = <<>> THEN <<>>
    ELSE (IF Head(f) = QUOTE THEN <<QUOTE, QUOTE>> ELSE <<Head(f)>>) \o DoubleQuotes(Tail(f))

IsPlain(f) == \A k \in 1..Len(f) : f[k] \notin {QUOTE, COMMA}

EncodeField(f, quoted) == IF quoted THEN <<QUOTE>> \o DoubleQuotes(f) \o <<QUOTE>> ELSE f

IsPrefix(a, b) == Len(a) <= Len(b) /\ SubSeq(b, 1, Len(a)) = a

LogicalFields ==
    AllLines(MaxLineLen - 3)
        \cup { <<"c", "a", "r", "o", "l", ",", " ", "i", "n", "c", ".">>,
               <<"3", "0", "0">>, <<"a", "\"", "b">>, <<"x">> }

Encodings == {e \in LogicalFields \X BOOLEAN : e[2] \/ IsPlain(e[1])}

\* The line is the encoding of one or two logical fields, the first one quoted,
\* and the parser returned them.
WellFormedParsed ==
    \A e0 \in Encodings :
        (e0[2] /\ IsPrefix(EncodeField(e0[1], e0[2]), p_line)) =>
            /\ p_line = EncodeField(e0[1], e0[2]) => p_raw = <<e0[1], <<>> >>
            /\ \A e1 \in Encodings :
                  p_line = EncodeField(e0[1], e0[2]) \o <<COMMA>> \o EncodeField(e1[1], e1[2])
                      => p_raw = <<e0[1], e1[1]>>

\* C6: a comma read in kInQuotes is appended to the current field and does not
\* end it, and a line that encodes a quoted first field and a second field
\* parses to exactly those two fields.
C6_QuotedCommaLiteral ==
    /\ [][(Reading /\ st = "kInQuotes" /\ NextChar = COMMA) =>
             /\ current' = Append(current, COMMA)
             /\ fields' = fields
             /\ st' = "kInQuotes"]_vars
    /\ [](p_pc \in {"parsed", "done"} => WellFormedParsed)

C6_Witness ==
    /\ p_pc = "parsed"
    /\ p_line = LineCarol
    /\ p_raw = << <<"c", "a", "r", "o", "l", ",", " ", "i", "n", "c", ".">>,
                  <<"3", "0", "0">> >>

\* C10: a quote read in kInQuotes appends nothing, a second quote read right
\* after it appends exactly one literal quote and the parser is in kInQuotes
\* again; "a""b",x gives item a"b and label x.
C10_DoubledQuote ==
    /\ [][(Reading /\ st = "kInQuotes" /\ NextChar = QUOTE) =>
             (current' = current /\ fields' = fields /\ st' = "kQuoteInQuotes")]_vars
    /\ [][(Reading /\ st = "kQuoteInQuotes" /\ NextChar = QUOTE) =>
             /\ current' = Append(current, QUOTE)
             /\ fields' = fields
             /\ st' = "kInQuotes"]_vars
    /\ []((p_pc = "done" /\ p_line = LineDoubledQuote) =>
             /\ p_res.has_item
             /\ p_res.item = <<"a", "\"", "b">>
             /\ p_res.label = LabelBytes(<<"x">>))

C10_Witness ==
    /\ p_pc = "done"
    /\ p_line = LineDoubledQuote
    /\ p_res.item = <<"a", "\"", "b">>
    /\ p_res.has_label


\* ------------------------------------------------------------------ loader claims
\* What process_line gives for each line of a source, and the accepted ones.
Records(ls) == [k \in 1..Len(ls) |-> process_line(ls[k])]

HasItem(rec) == rec.has_item

Accepted(ls) == SelectSeq(Records(ls), HasItem)

\* The item of row k of a dataset.
RowItem(res, k) == IF res.tag = "Labeled" THEN res.rows[k].item ELSE res.rows[k]

ReadReturned == pc = "read_done"

\* C1: the dataset read returns holds one row per line with a non-empty item,
\* in input order, wherever the lines without an item are.
C1_BadLineSkipped ==
    ReadReturned =>
        /\ Len(result.rows) = Len(Accepted(lines))
        /\ \A k \in 1..Len(result.rows) : RowItem(result, k) = Accepted(lines)[k].item

\* C4: with at least one accepted line, the dataset read returns is Labeled
\* exactly when the first accepted line has a label.
C4_TagFromFirstAccepted ==
    (ReadReturned /\ Accepted(lines) # <<>>) =>
        (result.tag = "Labeled" <=> Accepted(lines)[1].has_label)

\* C5: after the first record has set the tag, no step changes it; in a Labeled
\* dataset an accepted line without a label is appended as (Item, empty Label).
C5_TagFixed ==
    [][(pc \notin {"load_params", "open_csv", "read_first"}) =>
          /\ result'.tag = result.tag
          /\ (pc = "read_loop" /\ rpos < Len(lines) /\ result.tag = "Labeled") =>
                LET rec == process_line(lines[rpos + 1])
                IN  (rec.has_item /\ ~rec.has_label) =>
                        result'.rows = Append(result.rows,
                                              [item |-> rec.item, label |-> <<>>])]_vars

C5_Witness ==
    /\ pc = "read_loop"
    /\ result.tag = "Labeled"
    /\ Len(result.rows) = 2
    /\ result.rows[1].label # <<>>
    /\ result.rows[2].label = <<>>

\* ------------------------------------------------------------------ pipeline claims
Failed == ret \in {"nullptr", "exception"}

\* C3: when the call fails, out_table is as it was passed in or holds only
\* entries whose masked label has been computed.
C3_NoPartialTable ==
    Failed => (out_table = out_table_in \/ Len(out_table) <= i_mask)

\* Big-endian value of a byte string.
RECURSIVE DecodeUid(_)
DecodeUid(u) ==
    IF u = <<>> THEN 0 ELSE 256 * DecodeUid(SubSeq(u, 1, Len(u) - 1)) + u[Len(u)]

\* C8: on success the table has one entry per dataset row, entry k holds k
\* big-endian in uid_bytes bytes: the UIDs are 1..total, increasing and distinct.
C8_DenseUids ==
    (mode = "uid" /\ ret = "db") =>
        /\ Len(out_table) = Len(result.rows)
        /\ Len(out_table) = Len(Accepted(lines))
        /\ \A k \in 1..Len(out_table) :
              /\ Len(out_table[k].uid) = uid_bytes
              /\ DecodeUid(out_table[k].uid) = k
        /\ \A k \in 2..Len(out_table) :
              DecodeUid(out_table[k - 1].uid) < DecodeUid(out_table[k].uid)
        /\ \A j, k \in 1..Len(out_table) :
              j # k => out_table[j].uid # out_table[k].uid

\* A successful run over a source with a skipped line.
C8_Witness ==
    /\ mode = "uid"
    /\ ret = "db"
    /\ Len(lines) = 3
    /\ ~process_line(lines[2]).has_item
    /\ Len(out_table) = 2
    /\ out_table[2].uid = <<2>>

\* C9: masking a masked label again with the keystream of its row gives the
\* original label of the row.
C9_DoubleMask ==
    (pc = "mask_loop" \/ ret = "db") =>
        \A k \in 1..i_mask :
            MaskLabel(out_table[k].masked, PrfBytes(all_hashes[k])) = result.rows[k].label

\* A masked 17-byte label (longer than the 16-byte keystream) that differs
\* from the original.
C9_Witness ==
    /\ ret = "db"
    /\ \E k \in 1..Len(out_table) :
          /\ Len(result.rows[k].label) = 17
          /\ out_table[k].masked # result.rows[k].label
          /\ out_table[k].masked[17] # result.rows[k].label[17]

\* ------------------------------------------------------------------ width claims
\* C7: uid_bytes is the least w >= 1 with total <= 256^w - 1, every index up to
\* total is encoded without truncation, and totals 1, 255, 256, 65535, 65536
\* give 1, 1, 2, 2, 3.
C7_UidWidth ==
    w_bytes > 0 =>
        /\ w_bytes >= 1
        /\ w_total <= Pow256(w_bytes) - 1
        /\ \A w \in 1..(w_bytes - 1) : w_total > Pow256(w) - 1
        /\ w_i > 0 => (Len(w_uid) = w_bytes /\ DecodeUid(w_uid) = w_i)
        /\ w_total \in {1, 255} => w_bytes = 1
        /\ w_total \in {256, 65535} => w_bytes = 2
        /\ w_total = 65536 => w_bytes = 3

C7_Witness ==
    /\ w_total = 65536
    /\ w_bytes = 3
    /\ w_i = 65536
    /\ w_uid = <<1, 0, 0>>


\* ------------------------------------------------------------------ C11 .. C20
\* A field of white space only: it is empty after trim (and unescaping a
\* non-empty string never empties it).
IsBlank(f) == \A k \in 1..Len(f) : IsSpace(f[k])

\* C11: process_line rejects a line (has_item and has_label both false) exactly
\* when its item field is blank, whatever its label field holds, and a rejected
\* line leaves the dataset and the diagnostic list as they were.
C11_EmptyItemRejected ==
    /\ [](p_pc \in {"done", "stored"} =>
             /\ ~p_res.has_item <=> IsBlank(p_raw[1])
             /\ ~p_res.has_item => ~p_res.has_label)
    /\ [][(p_pc = "done" /\ ~p_res.has_item) =>
             (result' = result /\ orig_items' = orig_items)]_vars

\* A rejected line with a blank, non-empty item field and a label.
C11_Witness ==
    /\ p_pc = "stored"
    /\ ~p_res.has_item
    /\ p_raw[1] # <<>>
    /\ trim(p_raw[2]) # <<>>
    /\ Len(result.rows) = 1
    /\ Len(orig_items) = 1


\* C12: reading a source without any line returns the empty Unlabeled dataset
\* and an empty diagnostic list, and no error is raised by it.
C12_EmptySource ==
    /\ [][(pc = "read_first" /\ lines = <<>>) =>
             /\ pc' = "read_done"
             /\ ret' = "none"
             /\ result' = [tag |-> "Unlabeled", rows |-> <<>>]
             /\ orig_items' = <<>>]_vars
    /\ []((lines = <<>> /\ pc \notin {"load_params", "open_csv", "read_first"}) =>
             /\ result = [tag |-> "Unlabeled", rows |-> <<>>]
             /\ orig_items = <<>>)

\* The read of an empty source has returned.
C12_Witness ==
    /\ lines = <<>>
    /\ ReadReturned
    /\ ret = "none"
    /\ result.rows = <<>>


\* The leftmost-first rewriting of the escape pairs of s: a backslash followed
\* by a comma or a backslash is replaced by that second character, every other
\* character is copied.
RECURSIVE Rewritten(_)
Rewritten(s) ==
    IF s = <<>> THEN <<>>
    ELSE IF Len(s) >= 2 /\ s[1] = BSLASH /\ s[2] \in {COMMA, BSLASH}
         THEN <<s[2]>> \o Rewritten(SubSeq(s, 3, Len(s)))
         ELSE <<s[1]>> \o Rewritten(Tail(s))

\* s holds no backslash that is followed by a comma or a backslash.
NoEscapePair(s) ==
    \A k \in 1..(Len(s) - 1) : ~(s[k] = BSLASH /\ s[k + 1] \in {COMMA, BSLASH})

\* C13: of an accepted line only the item is unescaped: its escape pairs are
\* rewritten and every other backslash, a trailing one included, stays; the
\* label is the trimmed label field byte for byte, backslashes included.
C13_UnescapeItemOnly ==
    (p_pc \in {"done", "stored"} /\ p_res.has_item) =>
        LET item_field == trim(p_raw[1])
            label_field == trim(p_raw[2])
        IN  /\ p_res.item = Rewritten(item_field)
            /\ p_res.orig_item = p_res.item
            /\ NoEscapePair(item_field) => p_res.item = item_field
            /\ Len(p_res.label) = Len(label_field)
            /\ \A k \in 1..Len(label_field) : p_res.label[k] = CharCode(label_field[k])

\* The line \\,\\ : the item is one backslash, the label two.
C13_Witness ==
    /\ p_pc = "done"
    /\ p_raw = << <<BSLASH, BSLASH>>, <<BSLASH, BSLASH>> >>
    /\ p_res.has_item
    /\ p_res.item = <<BSLASH>>
    /\ p_res.label = <<92, 92>>


\* C14: while the dataset is Unlabeled, the loop appends for every accepted
\* line its Item alone, whether the line has a label or not; the tag stays
\* Unlabeled, the line is not skipped and no error is raised.
C14_UnlabeledTakesItemOnly ==
    [][(pc = "read_loop" /\ rpos < Len(lines) /\ result.tag = "Unlabeled") =>
          LET rec == process_line(lines[rpos + 1])
          IN  rec.has_item =>
                /\ result' = [tag |-> "Unlabeled",
                              rows |-> Append(result.rows, rec.item)]
                /\ Len(orig_items') = Len(orig_items) + 1
                /\ pc' = "read_loop"
                /\ ret' = ret]_vars

\* An Unlabeled dataset whose second row comes from a line with a label.
C14_Witness ==
    /\ pc = "read_loop"
    /\ rpos = 2
    /\ result.tag = "Unlabeled"
    /\ Len(result.rows) = 2
    /\ process_line(lines[2]).has_label
    /\ result.rows[2] = process_line(lines[2]).item
    /\ ret = "none"


\* The item field of a line holds a non-blank character.
HasItemField(l) == ~IsBlank(parse_two_fields(l)[1])

\* The lines read so far that gave a row, in file order.
ProducingLines == SelectSeq(SubSeq(lines, 1, rpos), HasItemField)

\* The trimmed, unescaped item string of a line.
ItemString(l) == Rewritten(trim(parse_two_fields(l)[1]))

\* C15: at every point of a load orig_items is as long as the dataset, and its
\* k-th entry is the trimmed, unescaped item string of the line that gave row k.
C15_OrigItemsAligned ==
    (pc \notin {"load_params", "open_csv", "read_first"}) =>
        /\ Len(orig_items) = Len(result.rows)
        /\ result.rows # <<>> =>
              /\ Len(result.rows) = Len(ProducingLines)
              /\ \A k \in 1..Len(result.rows) :
                    /\ orig_items[k] = ItemString(ProducingLines[k])
                    /\ RowItem(result, k) = ItemString(ProducingLines[k])

\* Three lines, the second rejected, the third with an escaped backslash.
C15_Witness ==
    /\ ReadReturned
    /\ rpos = 3
    /\ ~HasItemField(lines[2])
    /\ Len(result.rows) = 2
    /\ orig_items[2] = <<"a", BSLASH>>
    /\ lines[3] = <<SPACE, "a", BSLASH, BSLASH, COMMA, "1">>


\* The dataset try_load_csv_uid_db cannot work on.
NotLabeledOrEmpty == result.tag # "Labeled" \/ Len(result.rows) = 0

\* C16: when read returns a dataset that is not Labeled or has no row,
\* try_load_csv_uid_db returns nullptr at once; no SenderDB is constructed and
\* ComputeHashes is not called.
C16_UidNeedsLabeledRows ==
    /\ [][(mode = "uid" /\ ReadReturned /\ NotLabeledOrEmpty) =>
             /\ pc' = "done"
             /\ ret' = "nullptr"
             /\ sender_db' = NoDb
             /\ all_hashes' = <<>>
             /\ db_vec' = <<>>]_vars
    /\ []((mode = "uid" /\ NotLabeledOrEmpty
           /\ pc \notin {"load_params", "open_csv", "read_first", "read_loop"}) =>
             /\ pc \in {"read_done", "done"}
             /\ pc = "done" => ret = "nullptr"
             /\ sender_db = NoDb
             /\ all_hashes = <<>>)

\* An Unlabeled dataset with rows was read and the UID loader has failed.
C16_Witness ==
    /\ mode = "uid"
    /\ pc = "done"
    /\ ret = "nullptr"
    /\ result.tag = "Unlabeled"
    /\ Len(result.rows) = 2
    /\ sender_db = NoDb
    /\ all_hashes = <<>>


\* C17: the label_byte_count a SenderDB is constructed with is 0 for an
\* Unlabeled dataset, the greatest label length of the rows for a Labeled
\* dataset given to create_sender_db, and uid_bytes (the least width for the
\* row count, whatever the labels are) in try_load_csv_uid_db.
C17_StoredLabelWidth ==
    sender_db.built =>
        /\ (mode = "direct" /\ result.tag = "Unlabeled") =>
              sender_db.label_byte_count = 0
        /\ (mode = "direct" /\ result.tag = "Labeled") =>
              /\ \A k \in 1..Len(result.rows) :
                    Len(result.rows[k].label) <= sender_db.label_byte_count
              /\ \E k \in 1..Len(result.rows) :
                    Len(result.rows[k].label) = sender_db.label_byte_count
        /\ mode = "uid" =>
              /\ result.tag = "Labeled"
              /\ sender_db.label_byte_count = uid_bytes
              /\ uid_bytes >= 1
              /\ Len(result.rows) <= Pow256(uid_bytes) - 1
              /\ \A w \in 1..(uid_bytes - 1) : Len(result.rows) > Pow256(w) - 1

\* create_sender_db on a Labeled dataset whose longest label is not the first.
C17_Witness ==
    /\ mode = "direct"
    /\ ret = "db"
    /\ result.tag = "Labeled"
    /\ Len(result.rows) = 2
    /\ Len(result.rows[1].label) = 1
    /\ Len(result.rows[2].label) = 17
    /\ sender_db.label_byte_count = 17


\* The least width w >= 1 with n <= 256^w - 1, for n below 2^24.
LeastWidth(n) ==
    CHOOSE w \in 1..3 : n <= Pow256(w) - 1 /\ \A v \in 1..(w - 1) : n > Pow256(v) - 1

\* k written in w base-256 digits, most significant first.
RECURSIVE BigEndian(_, _)
BigEndian(k, w) == IF w = 0 THEN <<>> ELSE Append(BigEndian(k \div 256, w - 1), k % 256)

\* The UIDs of a dataset of n rows: a function of n alone.
UidSequence(n) == [k \in 1..n |-> BigEndian(k, LeastWidth(n))]

\* C18: the UIDs written to the table and the UID labels stored in the
\* database are the entries of UidSequence(number of rows): two Labeled
\* datasets with as many rows get the same UIDs, whatever their rows hold.
C18_UidsFromRowCountOnly ==
    (mode = "uid" /\ sender_db.built) =>
        /\ \A k \in 1..Len(out_table) :
              out_table[k].uid = UidSequence(Len(result.rows))[k]
        /\ \A k \in 1..Len(sender_db.data) :
              sender_db.data[k].label = UidSequence(Len(result.rows))[k]
        /\ ret = "db" =>
              /\ Len(out_table) = Len(result.rows)
              /\ Len(sender_db.data) = Len(result.rows)

\* A successful run on two rows that differ in item and in label length.
C18_Witness ==
    /\ mode = "uid"
    /\ ret = "db"
    /\ Len(result.rows) = 2
    /\ result.rows[1].item # result.rows[2].item
    /\ Len(result.rows[1].label) # Len(result.rows[2].label)
    /\ sender_db.data[1].label = <<1>>
    /\ sender_db.data[2].label = <<2>>
    /\ out_table[2].uid = <<2>>


\* Bit n of the byte x.
Bit(x, n) == (x \div (2 ^ n)) % 2

\* m is the bitwise exclusive or of the bytes l and k.
IsXor(m, l, k) ==
    /\ m \in 0..255
    /\ \A n \in 0..7 : (Bit(m, n) = 1) <=> (Bit(l, n) # Bit(k, n))

\* Byte j (0-based) of the keystream of row k: the words of the hash of the
\* row, low byte first, repeated.
KeystreamByte(k, j) ==
    LET kslen == 8 * Len(all_hashes[k])
        p == j % kslen
    IN  WordByte(all_hashes[k][(p \div 8) + 1], p % 8)

\* C19: the masked label of every masked row is as long as the label of the
\* row (empty for an empty label) and byte j is the label byte XOR byte
\* j mod kslen of the keystream of the row; the hashes are those of the items
\* of the rows, in row order.
C19_MaskedLabel ==
    (mode = "uid" /\ (pc = "mask_loop" \/ ret = "db")) =>
        /\ Len(all_hashes) = Len(result.rows)
        /\ \A j, k \in 1..Len(result.rows) :
              result.rows[j].item = result.rows[k].item => all_hashes[j] = all_hashes[k]
        /\ \A k \in 1..i_mask :
              LET lbl == result.rows[k].label
                  masked == out_table[k].masked
              IN  /\ Len(masked) = Len(lbl)
                  /\ \A j \in 1..Len(lbl) :
                        IsXor(masked[j], lbl[j], KeystreamByte(k, j - 1))

\* A row whose 17-byte label wraps around the 16-byte keystream and a row with
\* an empty label, under different hashes.
C19_Witness ==
    /\ mode = "uid"
    /\ ret = "db"
    /\ Len(result.rows) = 2
    /\ result.rows[2].label = <<>>
    /\ out_table[2].masked = <<>>
    /\ Len(out_table[1].masked) = 17
    /\ all_hashes[1] # all_hashes[2]
    /\ IsXor(out_table[1].masked[17], result.rows[1].label[17], KeystreamByte(1, 0))
    /\ KeystreamByte(1, 0) # KeystreamByte(1, 1)


\* The parser after the first k characters of the line.
ParsedPrefix(k) == ParseFrom(SubSeq(p_line, 1, k), 1, ParseInit)

\* C20: at the end of the line the accumulator becomes the last field in
\* whatever state the parser is; what is returned is a pair, the first and the
\* second field, an absent second field being empty; once two fields are
\* complete the rest of the line changes neither.
C20_FlushAndTwoFields ==
    /\ [][(p_pc = "parse" /\ p_i = Len(p_line)) =>
             /\ fields' = Append(fields, current)
             /\ p_pc' = "parsed"]_vars
    /\ [][Len(fields) >= 2 => (fields'[1] = fields[1] /\ fields'[2] = fields[2])]_vars
    /\ [](p_pc \in {"parsed", "done", "stored"} =>
             /\ Len(p_raw) = 2
             /\ Len(fields) >= 1
             /\ p_raw[1] = fields[1]
             /\ p_raw[2] = (IF Len(fields) >= 2 THEN fields[2] ELSE <<>>)
             /\ \A k \in 0..Len(p_line) :
                   Len(ParsedPrefix(k).fields) >= 2 =>
                       p_raw = <<ParsedPrefix(k).fields[1], ParsedPrefix(k).fields[2]>>)

\* The line a,,"a : the end of the line comes inside a quoted third field.
C20_Witness ==
    /\ p_pc = "parsed"
    /\ st = "kInQuotes"
    /\ Len(fields) = 3
    /\ fields[3] = <<"a">>
    /\ p_raw = << <<"a">>, <<>> >>


\* ------------------------------------------------------------------ C21 .. C23
\* The record parser as the specification gives it: three states and eight
\* transitions; q = [state, acc, out] with acc the accumulator and out the
\* fields emitted.
MachineStep(q, ch) ==
    CASE q.state = "Unquoted" /\ ch = QUOTE ->
           [q EXCEPT !.state = "InsideQuotes"]
      [] q.state = "Unquoted" /\ ch = COMMA ->
           [q EXCEPT !.out = Append(q.out, q.acc), !.acc = <<>>]
      [] q.state = "Unquoted" /\ ch \notin {QUOTE, COMMA} ->
           [q EXCEPT !.acc = Append(q.acc, ch)]
      [] q.state = "InsideQuotes" /\ ch = QUOTE ->
           [q EXCEPT !.state = "QuoteSeenInsideQuotes"]
      [] q.state = "InsideQuotes" /\ ch # QUOTE ->
           [q EXCEPT !.acc = Append(q.acc, ch)]
      [] q.state = "QuoteSeenInsideQuotes" /\ ch = QUOTE ->
           [q EXCEPT !.acc = Append(q.acc, QUOTE), !.state = "InsideQuotes"]
      [] q.state = "QuoteSeenInsideQuotes" /\ ch = COMMA ->
           [q EXCEPT !.out = Append(q.out, q.acc), !.acc = <<>>, !.state = "Unquoted"]
      [] q.state = "QuoteSeenInsideQuotes" /\ ch \notin {QUOTE, COMMA} ->
           [q EXCEPT !.acc = Append(q.acc, ch), !.state = "Unquoted"]

RECURSIVE MachineRun(_, _)
MachineRun(line, k) ==
    IF k = 0 THEN [state |-> "Unquoted", acc |-> <<>>, out |-> <<>>]
    ELSE MachineStep(MachineRun(line, k - 1), line[k])

\* The two fields the machine returns: the accumulator is flushed, the first
\* two fields are taken, an absent one is empty.
MachineFields(line) ==
    LET q == MachineRun(line, Len(line))
        all == q.out \o <<q.acc>>
    IN  <<all[1], IF Len(all) >= 2 THEN all[2] ELSE <<>> >>

\* The state of the machine a state of the code stands for.
MachineState(state) ==
    CASE state = "kStart" -> "Unquoted"
      [] state = "kInQuotes" -> "InsideQuotes"
      [] state = "kQuoteInQuotes" -> "QuoteSeenInsideQuotes"
      [] OTHER -> "none"

\* C21: on every line parse_two_fields moves in step with the three-state
\* machine of the specification and returns its two fields; the state
\* kOutQuotes, the default arm of the switch and the comma arm inside the
\* quote-closed branch are never entered; the parser of src/unnamed/part_000
\* returns the same two fields.
C21_ThreeStateMachine ==
    /\ st \in {"kStart", "kInQuotes", "kQuoteInQuotes"}
    /\ (p_pc = "parse" /\ p_i < Len(p_line)) =>
          SwitchArm(st, p_line[p_i + 1]) \notin {"closed_comma", "default"}
    /\ p_pc = "parse" =>
          LET q == MachineRun(p_line, p_i)
          IN  /\ q.state = MachineState(st)
              /\ q.acc = current
              /\ q.out = fields
    /\ p_pc \in {"parsed", "done", "stored"} =>
          /\ p_raw = MachineFields(p_line)
          /\ p_raw = parse_two_fields_copy(p_line)

\* The line "a"a, : a quote is closed by an ordinary character, then a comma
\* ends the field.
C21_Witness ==
    /\ p_pc = "parsed"
    /\ p_line = <<QUOTE, "a", QUOTE, "a", COMMA>>
    /\ st = "kStart"
    /\ p_raw = << <<"a", "a">>, <<>> >>
    /\ p_raw = MachineFields(p_line)


\* C22: a Labeled dataset has at least one row and its first row has a
\* non-empty label; so create_sender_db takes the greatest label length over a
\* non-empty sequence and gets at least 1, and try_load_csv_uid_db returns
\* nullptr after the read only for a dataset that is not Labeled (total is
\* never 0 for a Labeled one).
C22_LabeledHasLabelledFirstRow ==
    /\ [](result.tag = "Labeled" =>
             /\ Len(result.rows) >= 1
             /\ result.rows[1].label # <<>>)
    /\ []((mode = "direct" /\ sender_db.built /\ result.tag = "Labeled") =>
             sender_db.label_byte_count >= 1)
    /\ []((mode = "uid" /\ pc \in {"construct", "uid_loop", "hashes", "mask_loop"}) =>
             total >= 1)
    /\ [][(mode = "uid" /\ ReadReturned /\ ret' = "nullptr") =>
             result.tag = "Unlabeled"]_vars

\* create_sender_db on a Labeled dataset whose second row has no label.
C22_Witness ==
    /\ mode = "direct"
    /\ ret = "db"
    /\ result.tag = "Labeled"
    /\ Len(result.rows) = 2
    /\ result.rows[1].label # <<>>
    /\ result.rows[2].label = <<>>
    /\ sender_db.label_byte_count >= 1


\* C23: when try_load_csv_uid_db returns nullptr (the parameters do not load,
\* the source does not open, the dataset is not Labeled or has no row),
\* out_table is what the caller passed in; out_table changes only once the
\* dataset has passed the tests.
C23_TableKeptOnEarlyFailure ==
    /\ []((mode = "uid" /\ ret = "nullptr") => out_table = out_table_in)
    /\ []((mode = "uid"
           /\ pc \in {"load_params", "open_csv", "read_first", "read_loop", "read_done"}) =>
             out_table = out_table_in)
    /\ [][out_table' # out_table =>
             /\ mode = "uid"
             /\ pc \in {"construct", "uid_loop", "mask_loop"}
             /\ result.tag = "Labeled"
             /\ Len(result.rows) >= 1]_vars

\* A caller's table survives a load of an Unlabeled source.
C23_Witness ==
    /\ mode = "uid"
    /\ pc = "done"
    /\ ret = "nullptr"
    /\ result.tag = "Unlabeled"
    /\ Len(result.rows) >= 1
    /\ out_table_in = StaleTable
    /\ out_table = StaleTable

====
